---- MODULE Spec2Model ----
(***************************************************************************)
(* Model of streamlit_app.py: one script run of main() at a time.  Every   *)
(* call the script makes on the UI framework or on the query engine is     *)
(* appended to `log`; `status` says how the run ended.                     *)
(*                                                                         *)
(* Text that the script only tests for emptiness or passes on (prompt,     *)
(* bucket name, ...) is a TLA+ string.  Text that the script takes apart   *)
(* (the uploaded file's name, the lines of a CSV blob, the row text given  *)
(* to the tokenizer) is a sequence of one-character strings.               *)
(*                                                                         *)
(* Line 100 of the source, `with get_openai_callback() as cb if            *)
(* llm_choice == "OpenAI" else None:`, is modelled as the with-item whose  *)
(* context expression is the conditional and whose target is cb.  As       *)
(* written the Python compiler rejects the line (a conditional expression  *)
(* is no assignment target); every other statement is modelled as it       *)
(* executes.                                                               *)
(***************************************************************************)
EXTENDS Integers, Sequences, FiniteSets, TLC

\* ---------------------------------------------------------------- bounds
MaxRows == 2
MaxCols == 2
MaxLineLen == 2
MaxBlobLines == 2

\* ------------------------------------------------------- program constants
\* cost_per_token = 0.0005, kept as the integer 5 (units of 1e-4 dollar)
cost_per_token == 5
\* the reference tokenizer cuts a run of digits into pieces of at most 3
MaxDigitsPerToken == 3

\* ------------------------------------------------------------ text helpers
Min(a, b) == IF a < b THEN a ELSE b

SetMin(S) == CHOOSE x \in S : \A y \in S : x <= y

\* str.lower() on the characters a file name can hold
lower(c) ==
  CASE c = "C" -> "c"
    [] c = "S" -> "s"
    [] c = "V" -> "v"
    [] c = "X" -> "x"
    [] c = "L" -> "l"
    [] OTHER -> c

lower_str(s) == [i \in 1..Len(s) |-> lower(s[i])]

\* str.split(sep): the pieces between the separators, empty pieces kept
RECURSIVE split(_, _)
split(s, sep) ==
  LET idx == {i \in 1..Len(s) : s[i] = sep} IN
  IF idx = {} THEN <<s>>
  ELSE LET i == SetMin(idx) IN
       <<SubSeq(s, 1, i - 1)>> \o split(SubSeq(s, i + 1, Len(s)), sep)

\* sep.join(parts)
RECURSIVE join(_, _)
join(sep, parts) ==
  IF parts = <<>> THEN <<>>
  ELSE IF Len(parts) = 1 THEN parts[1]
  ELSE parts[1] \o <<sep>> \o join(sep, Tail(parts))

DigitChar == <<"0", "1", "2", "3", "4", "5", "6", "7", "8", "9">>

\* astype(str) on an integer cell: its decimal digits
RECURSIVE str(_)
str(n) ==
  IF n < 10 THEN <<DigitChar[n + 1]>>
  ELSE str(n \div 10) \o <<DigitChar[(n % 10) + 1]>>

\* encoding.encode on text made of digits and spaces: every space is a
\* token, every run of digits is cut left to right into pieces of at most
\* MaxDigitsPerToken digits
RECURSIVE encode(_)
encode(s) ==
  IF s = <<>> THEN <<>>
  ELSE IF s[1] = " " THEN <<<<" ">>>> \o encode(Tail(s))
  ELSE LET spaces == {i \in 1..Len(s) : s[i] = " "}
           run == IF spaces = {} THEN Len(s) ELSE SetMin(spaces) - 1
           k == Min(run, MaxDigitsPerToken)
       IN <<SubSeq(s, 1, k)>> \o encode(SubSeq(s, k + 1, Len(s)))

\* ------------------------------------------------------------- log entries
E(op, arg) == [op |-> op, arg |-> arg]

\* ------------------------------------------------------------ OutputParser
ResultTypes == {"dataframe", "plot", "string", "number"}

parse_PlotAsTable(result) ==
  IF result.type = "dataframe" \/ result.type = "plot"
  THEN <<E("st.dataframe", "result.value")>>
  ELSE <<E("st.write", "result.value")>>

\* OutputParser.parse: the display calls it makes for one result
parse(result) ==
  IF result.type = "dataframe" THEN <<E("st.dataframe", "result.value")>>
  ELSE IF result.type = "plot" THEN <<E("st.image", "result.value")>>
  ELSE <<E("st.write", "result.value")>>

\* ------------------------------------------------------------------- setup
setup == <<E("st.header", "title"), E("st.markdown", "style")>>

Tasks ==
  {"Load from local drive, <200MB", "Load from local drive, 200MB+",
   "Load from Google Storage", "Yahoo Finance"}

get_tasks == <<E("st.sidebar.header", "Select a task"), E("st.sidebar.radio", "task")>>

LLMs == {"OpenAI", "Google Gemini"}

get_llm == <<E("st.sidebar.header", "Select an LLM"), E("st.sidebar.radio", "llm")>>

\* task.startswith("Load from local drive")
startswith_local_drive(t) ==
  t \in {"Load from local drive, <200MB", "Load from local drive, 200MB+"}

\* Python truthiness of a text value: `not s` is true of the empty string
not_AlwaysFalse(s) == FALSE

not(s) == s = ""

\* ---------------------------------------------------------------- tables
NoDF == [columns |-> <<>>, data |-> <<>>]

\* ---------------------------------------------------------- calculate_cost
RECURSIVE SumSeq(_)
SumSeq(s) == IF s = <<>> THEN 0 ELSE s[1] + SumSeq(Tail(s))

\* len(encoding.encode(' '.join(row.values.astype(str))))
row_tokens(row) == Len(encode(join(" ", [i \in 1..Len(row) |-> str(row[i])])))

total_tokens_LastRowOnly(d) ==
  IF d.data = <<>> THEN 0 ELSE row_tokens(d.data[Len(d.data)])

\* sum(... for _, row in df.iterrows())
total_tokens(d) == SumSeq([r \in 1..Len(d.data) |-> row_tokens(d.data[r])])

\* total_tokens * cost_per_token / 1000, in units of 1e-7 dollar
cost_of(tokens) == tokens * cost_per_token

calculate_cost(d) ==
  [tokens |-> total_tokens(d),
   cost |-> cost_of(total_tokens(d)),
   log |-> <<E("st.write", "Tokens:"), E("st.write", "Cost:")>>]

\* -------------------------------------------------------------- write_read
\* csv.reader on one line: the fields between commas; an empty line is []
csv_row(line) == IF line = <<>> THEN <<>> ELSE split(line, ",")

\* a dict is a sequence of <<key, value>> with distinct keys, in insertion
\* order; d[k] = v keeps the place of a key that is already there
dict_set(d, k, v) ==
  IF \E i \in 1..Len(d) : d[i][1] = k
  THEN [i \in 1..Len(d) |-> IF d[i][1] = k THEN <<k, v>> ELSE d[i]]
  ELSE Append(d, <<k, v>>)

dict_keys(d) == [i \in 1..Len(d) |-> d[i][1]]

NaN == <<"N", "a", "N">>

dict_get(d, k) ==
  IF \E i \in 1..Len(d) : d[i][1] = k
  THEN d[CHOOSE i \in 1..Len(d) : d[i][1] = k][2]
  ELSE NaN

\* {header[i]: row[i] for i in range(len(header))}, the first i fields done
RECURSIVE row_dict(_, _, _)
row_dict(header, row, i) ==
  IF i = 0 THEN <<>>
  ELSE dict_set(row_dict(header, row, i - 1), header[i], row[i])

\* the keys of the records in order of first appearance
RECURSIVE all_keys(_)
all_keys(records) ==
  IF records = <<>> THEN <<>>
  ELSE LET before == all_keys(SubSeq(records, 1, Len(records) - 1))
           mine == dict_keys(records[Len(records)])
           seen == {before[i] : i \in 1..Len(before)}
       IN before \o SelectSeq(mine, LAMBDA k : k \notin seen)

\* pd.DataFrame(list of dicts): one row per dict, one column per key
DataFrame(records) ==
  LET cols == all_keys(records) IN
  [columns |-> cols,
   data |-> [r \in 1..Len(records) |->
               [c \in 1..Len(cols) |-> dict_get(records[r], cols[c])]]]

\* write_read on what the storage service answers for the named blob:
\* answer.error is the exception of Client/bucket/blob.open ("" when the
\* blob opens), answer.lines the lines of the blob
write_read(bucket, blob, answer) ==
  IF answer.error # "" THEN [raised |-> answer.error, df |-> NoDF]
  ELSE IF answer.lines = <<>> THEN [raised |-> "StopIteration", df |-> NoDF]
  ELSE LET header == csv_row(answer.lines[1])
           data == [r \in 1..(Len(answer.lines) - 1) |-> csv_row(answer.lines[r + 1])]
       IN IF \E r \in 1..Len(data) : Len(data[r]) < Len(header)
          THEN [raised |-> "IndexError", df |-> NoDF]
          ELSE [raised |-> "",
                df |-> DataFrame([r \in 1..Len(data) |->
                                    row_dict(header, data[r], Len(header))])]

\* ----------------------------------------------------------------- inputs
Cells == {7, 1234}

ColNames == <<"c1", "c2", "c3", "c4">>

\* the tables an uploaded file can hold: 1..MaxCols columns, 0..MaxRows rows
Tables ==
  UNION {UNION {{[columns |-> SubSeq(ColNames, 1, w), data |-> rows] :
                   rows \in [1..n -> [1..w -> Cells]]} : n \in 0..MaxRows}
           : w \in 1..MaxCols}

FileNames ==
  {<<"d", ".", "c", "s", "v">>, <<"d", ".", "C", "S", "V">>,
   <<"d", ".", "x", "l", "s", "x">>}

\* st.file_uploader returns None when nothing is uploaded
None == [name |-> <<>>, content |-> "", table |-> NoDF]

\* content says what the bytes of the file really are
Uploads ==
  {[name |-> nm, content |-> k, table |-> t] :
     nm \in FileNames, k \in {"csv", "xlsx"}, t \in Tables}
  \cup {[name |-> nm, content |-> "malformed", table |-> NoDF] : nm \in FileNames}

Chars == {"a", ","}

Lines == UNION {[1..n -> Chars] : n \in 0..MaxLineLen}

Blobs == UNION {[1..n -> Lines] : n \in 0..MaxBlobLines}

NoGcs == [error |-> "", lines |-> <<>>]

GcsAnswers ==
  {[error |-> e, lines |-> <<>>] : e \in {"NotFound", "Forbidden"}}
  \cup {[error |-> "", lines |-> b] : b \in Blobs}

NoResult == [raises |-> FALSE, type |-> "", value |-> ""]

\* what the query engine does with one chat call: it raises, or it hands
\* one typed result to the response parser
EngineOutcomes ==
  {[raises |-> TRUE, type |-> "", value |-> ""]}
  \cup {[raises |-> FALSE, type |-> t, value |-> "v"] : t \in ResultTypes}

\* ------------------------------------------------------------------ state
VARIABLES pc, status, exc, log, task, dataset, df, shown_tokens, shown_cost,
          col_desc, addon, field_descriptions, llm_choice, prompt, result,
          bucket_name, blob_name, gcs, df_bq, stock_symbol

vars == <<pc, status, exc, log, task, dataset, df, shown_tokens, shown_cost,
          col_desc, addon, field_descriptions, llm_choice, prompt, result,
          bucket_name, blob_name, gcs, df_bq, stock_symbol>>

Fresh ==
  /\ pc = "main" /\ status = "running" /\ exc = "" /\ log = <<>>
  /\ task = "" /\ dataset = None /\ df = NoDF
  /\ shown_tokens = 0 /\ shown_cost = 0
  /\ col_desc = "" /\ addon = "" /\ field_descriptions = ""
  /\ llm_choice = "" /\ prompt = "" /\ result = NoResult
  /\ bucket_name = "" /\ blob_name = "" /\ gcs = NoGcs /\ df_bq = NoDF
  /\ stock_symbol = ""

Init == Fresh

Running(at) == pc = at /\ status = "running"

\* st.stop(): the run ends here, nothing after it executes
Stop == pc' = "end" /\ status' = "stopped" /\ exc' = exc

\* the end of main is reached
Return == pc' = "end" /\ status' = "done" /\ exc' = exc

\* an exception leaves main uncaught
Raise(e) == pc' = "end" /\ status' = "raised" /\ exc' = e

Goto(at) == pc' = at /\ status' = status /\ exc' = exc

\* ------------------------------------------------------------------- main
\* lines 69-70 and the branch on task (72, 111, 119)
SelectTask ==
  /\ Running("main")
  /\ \E t \in Tasks :
       /\ task' = t
       /\ log' = log \o setup \o get_tasks
       /\ Goto(IF startswith_local_drive(t) THEN "upload"
               ELSE IF t = "Load from Google Storage" THEN "cloud_inputs"
               ELSE "yahoo_symbol")
  /\ UNCHANGED <<dataset, df, shown_tokens, shown_cost, col_desc, addon,
                 field_descriptions, llm_choice, prompt, result, bucket_name,
                 blob_name, gcs, df_bq, stock_symbol>>

\* lines 73-74
Upload ==
  /\ Running("upload")
  /\ \E f \in Uploads \cup {None} :
       /\ dataset' = f
       /\ log' = Append(log, E("st.file_uploader", "dataset"))
       /\ IF f = None THEN Stop ELSE Goto("read")
  /\ UNCHANGED <<task, df, shown_tokens, shown_cost, col_desc, addon,
                 field_descriptions, llm_choice, prompt, result, bucket_name,
                 blob_name, gcs, df_bq, stock_symbol>>

\* dataset.name.split(".")[-1].lower()
file_extension(f) ==
  LET parts == split(f.name, ".") IN lower_str(parts[Len(parts)])

\* pd.read_csv / pd.read_excel raise on bytes that are not of their format
read_raises(f) ==
  IF file_extension(f) = <<"c", "s", "v">> THEN f.content # "csv"
  ELSE f.content # "xlsx"

ReadFile_Uncaught ==
  /\ Running("read")
  /\ IF read_raises(dataset)
     THEN /\ Raise("ParserError")
          /\ UNCHANGED <<log, df>>
     ELSE /\ df' = dataset.table
          /\ log' = log
          /\ Goto("cost")
  /\ UNCHANGED <<task, dataset, shown_tokens, shown_cost, col_desc, addon,
                 field_descriptions, llm_choice, prompt, result, bucket_name,
                 blob_name, gcs, df_bq, stock_symbol>>

\* lines 76-81
ReadFile ==
  /\ Running("read")
  /\ IF read_raises(dataset)
     THEN /\ log' = Append(log, E("st.error", "Error reading file"))
          /\ df' = df
          /\ Stop
     ELSE /\ df' = dataset.table
          /\ log' = log
          /\ Goto("cost")
  /\ UNCHANGED <<task, dataset, shown_tokens, shown_cost, col_desc, addon,
                 field_descriptions, llm_choice, prompt, result, bucket_name,
                 blob_name, gcs, df_bq, stock_symbol>>

\* lines 83-85
CostPreview ==
  /\ Running("cost")
  /\ LET c == calculate_cost(df) IN
       /\ shown_tokens' = c.tokens
       /\ shown_cost' = c.cost
       /\ log' = log \o c.log
                   \o <<E("st.write", "Data Preview:"), E("st.dataframe", "df.head")>>
  /\ Goto("describe")
  /\ UNCHANGED <<task, dataset, df, col_desc, addon, field_descriptions,
                 llm_choice, prompt, result, bucket_name, blob_name, gcs,
                 df_bq, stock_symbol>>

addon_of_NoIsBlank(choice, text) == IF choice = "Yes" THEN text ELSE ""

\* line 88: the text input is shown and read only when the choice is Yes
addon_of(choice, text) == IF choice = "Yes" THEN text ELSE "None"

\* lines 87-90; when addon is empty the if is skipped and main returns
DescribeColumns ==
  /\ Running("describe")
  /\ \E choice \in {"Yes", "No"}, text \in {"", "'c1': 'unique id'"} :
       /\ col_desc' = choice
       /\ addon' = addon_of(choice, text)
       /\ log' = log \o <<E("st.radio", "col_desc")>>
                   \o (IF choice = "Yes" THEN <<E("st.text_input", "addon")>> ELSE <<>>)
       /\ IF ~not(addon_of(choice, text)) THEN Goto("backend") ELSE Return
  /\ UNCHANGED <<task, dataset, df, shown_tokens, shown_cost,
                 field_descriptions, llm_choice, prompt, result, bucket_name,
                 blob_name, gcs, df_bq, stock_symbol>>

\* lines 91-95
SelectBackend ==
  /\ Running("backend")
  /\ \E l \in LLMs : llm_choice' = l
  /\ field_descriptions' = addon
  /\ log' = log \o get_llm
  /\ Goto("prompt")
  /\ UNCHANGED <<task, dataset, df, shown_tokens, shown_cost, col_desc, addon,
                 prompt, result, bucket_name, blob_name, gcs, df_bq,
                 stock_symbol>>

\* lines 96-99
EnterPrompt ==
  /\ Running("prompt")
  /\ \E p \in {"", "how many rows?"} :
       /\ prompt' = p
       /\ IF not(p)
          THEN /\ log' = Append(log, E("st.text_input", "prompt"))
               /\ Stop
          ELSE /\ log' = log \o <<E("st.text_input", "prompt"), E("st.write", "Response")>>
               /\ Goto("chat")
  /\ UNCHANGED <<task, dataset, df, shown_tokens, shown_cost, col_desc, addon,
                 field_descriptions, llm_choice, result, bucket_name,
                 blob_name, gcs, df_bq, stock_symbol>>

\* line 100: the context manager the with statement enters
context_manager(l) == IF l = "OpenAI" THEN "get_openai_callback" ELSE "None"

\* lines 100-109: entering None raises before the body; an exception of
\* sdf.chat leaves the with block and main; otherwise the engine hands its
\* result to the response parser inside chat and the body runs to its end
Dispatch ==
  /\ Running("chat")
  /\ LET cb == context_manager(llm_choice) IN
     IF cb = "None"
     THEN /\ Raise("TypeError")
          /\ UNCHANGED <<log, result>>
     ELSE \E r \in EngineOutcomes :
            /\ result' = r
            /\ IF r.raises
               THEN /\ log' = Append(log, E("sdf.chat", "prompt"))
                    /\ Raise("EngineError")
               ELSE /\ log' = log \o <<E("sdf.chat", "prompt")>> \o parse(r)
                                  \o <<E("st.write", "response"), E("st.divider", ""),
                                       E("st.write", "Under the hood"),
                                       E("st.code", "last_code_executed")>>
                                  \o (IF cb # "None"
                                      THEN <<E("st.divider", ""),
                                             E("st.write", "Tokens used and your cost:"),
                                             E("st.write", "cb")>>
                                      ELSE <<>>)
                    /\ Return
  /\ UNCHANGED <<task, dataset, df, shown_tokens, shown_cost, col_desc, addon,
                 field_descriptions, llm_choice, prompt, bucket_name,
                 blob_name, gcs, df_bq, stock_symbol>>

\* lines 112-114
CloudInputs ==
  /\ Running("cloud_inputs")
  /\ \E b \in {"", "bkt"}, o \in {"", "obj.csv"} :
       /\ bucket_name' = b
       /\ blob_name' = o
       /\ log' = log \o <<E("st.text_input", "bucket_name"), E("st.text_input", "blob_name")>>
       /\ IF not(b) \/ not(o) THEN Stop ELSE Goto("cloud_load")
  /\ UNCHANGED <<task, dataset, df, shown_tokens, shown_cost, col_desc, addon,
                 field_descriptions, llm_choice, prompt, result, gcs, df_bq,
                 stock_symbol>>

\* lines 115-117
CloudLoad ==
  /\ Running("cloud_load")
  /\ \E a \in GcsAnswers :
       LET r == write_read(bucket_name, blob_name, a) IN
       /\ gcs' = a
       /\ IF r.raised # ""
          THEN /\ Raise(r.raised)
               /\ UNCHANGED <<log, df_bq>>
          ELSE /\ df_bq' = r.df
               /\ log' = log \o <<E("st.write", "Data Preview:"),
                                  E("st.dataframe", "df_bq.head")>>
               /\ Return
  /\ UNCHANGED <<task, dataset, df, shown_tokens, shown_cost, col_desc, addon,
                 field_descriptions, llm_choice, prompt, result, bucket_name,
                 blob_name, stock_symbol>>

\* lines 120-122
YahooSymbol ==
  /\ Running("yahoo_symbol")
  /\ \E y \in {"", "MSFT"} :
       /\ stock_symbol' = y
       /\ log' = Append(log, E("st.text_input", "stock_symbol"))
       /\ IF not(y) THEN Stop ELSE Goto("yahoo_prompt")
  /\ UNCHANGED <<task, dataset, df, shown_tokens, shown_cost, col_desc, addon,
                 field_descriptions, llm_choice, prompt, result, bucket_name,
                 blob_name, gcs, df_bq>>

\* lines 123-125
YahooPrompt ==
  /\ Running("yahoo_prompt")
  /\ \E p \in {"", "closing price?"} :
       /\ prompt' = p
       /\ IF not(p)
          THEN /\ log' = Append(log, E("st.text_input", "prompt"))
               /\ Stop
          ELSE /\ log' = log \o <<E("st.text_input", "prompt"), E("st.write", "Response")>>
               /\ Goto("yahoo_chat")
  /\ UNCHANGED <<task, dataset, df, shown_tokens, shown_cost, col_desc, addon,
                 field_descriptions, llm_choice, result, bucket_name,
                 blob_name, gcs, df_bq, stock_symbol>>

\* lines 126-128
YahooDispatch ==
  /\ Running("yahoo_chat")
  /\ \E r \in EngineOutcomes :
       /\ result' = r
       /\ IF r.raises
          THEN /\ log' = Append(log, E("yahoo_df.chat", "prompt"))
               /\ Raise("EngineError")
          ELSE /\ log' = log \o <<E("yahoo_df.chat", "prompt")>> \o parse(r)
                             \o <<E("st.divider", ""), E("st.code", "last_code_executed")>>
               /\ Return
  /\ UNCHANGED <<task, dataset, df, shown_tokens, shown_cost, col_desc, addon,
                 field_descriptions, llm_choice, prompt, bucket_name,
                 blob_name, gcs, df_bq, stock_symbol>>

\* lines 130-135: the script is run again from the top on the next input
\* event; nothing of the previous run is kept
Rerun ==
  /\ pc = "end"
  /\ pc' = "main" /\ status' = "running" /\ exc' = "" /\ log' = <<>>
  /\ task' = "" /\ dataset' = None /\ df' = NoDF
  /\ shown_tokens' = 0 /\ shown_cost' = 0
  /\ col_desc' = "" /\ addon' = "" /\ field_descriptions' = ""
  /\ llm_choice' = "" /\ prompt' = "" /\ result' = NoResult
  /\ bucket_name' = "" /\ blob_name' = "" /\ gcs' = NoGcs /\ df_bq' = NoDF
  /\ stock_symbol' = ""

Next ==
  \/ SelectTask
  \/ Upload
  \/ ReadFile
  \/ CostPreview
  \/ DescribeColumns
  \/ SelectBackend
  \/ EnterPrompt
  \/ Dispatch
  \/ CloudInputs
  \/ CloudLoad
  \/ YahooSymbol
  \/ YahooPrompt
  \/ YahooDispatch
  \/ Rerun

Spec == Init /\ [][Next]_vars

\* --------------------------------------------------- reading the log
Has(op, arg) == \E i \in 1..Len(log) : log[i] = E(op, arg)

HasOp(op) == \E i \in 1..Len(log) : log[i].op = op

Last(q) == q[Len(q)]

IsLocal == startswith_local_drive(task)

IsCloud == task = "Load from Google Storage"

IsYahoo == task = "Yahoo Finance"

Dispatched == HasOp("sdf.chat") \/ HasOp("yahoo_df.chat")

\* the display calls made by OutputParser.parse in this run
ParseCalls == SelectSeq(log, LAMBDA e : e.arg = "result.value")

ViewFor(type) ==
  IF type = "dataframe" THEN "st.dataframe"
  ELSE IF type = "plot" THEN "st.image"
  ELSE "st.write"

\* ---------------------------------------------------------------- claims

\* C1: every result the engine hands to OutputParser.parse is displayed by
\* exactly one of table view, image view and plain-text write, chosen by
\* the result's type tag alone: dataframe -> table view, plot -> image view,
\* any other tag -> plain-text write; a plot is never given to the table view.
C1_ExactlyOneViewByTag ==
  /\ result.type = "" => ParseCalls = <<>>
  /\ result.type # "" =>
       /\ Len(ParseCalls) = 1
       /\ ParseCalls[1].op = ViewFor(result.type)
       /\ (result.type = "plot" => ~Has("st.dataframe", "result.value"))

C1_Witness ==
  /\ result.type = "plot"
  /\ ParseCalls = <<E("st.image", "result.value")>>

\* C2: whenever the query engine raises during a dispatch, the failure is
\* caught and shown as an error message and the run does not end with an
\* uncaught exception.
C2_EngineFailureCaught ==
  result.raises => (status # "raised" /\ HasOp("st.error"))

\* C3: the engine is dispatched only with every required input of the task
\* present and non-empty (file and prompt; symbol and prompt), the blob is
\* loaded only with bucket and blob name non-empty, and a run that finds an
\* input absent stops at the widget that asked for it: that widget is the
\* last call of the run, and no error is raised or shown.
C3_MissingInputHalts ==
  /\ (Dispatched /\ IsLocal) => (dataset # None /\ prompt # "")
  /\ (Dispatched /\ IsYahoo) => (stock_symbol # "" /\ prompt # "")
  /\ (IsCloud /\ (pc = "cloud_load" \/ gcs # NoGcs \/ HasOp("st.dataframe")))
       => (bucket_name # "" /\ blob_name # "")
  /\ (IsLocal /\ pc # "upload" /\ dataset = None)
       => (status = "stopped" /\ exc = "" /\ ~HasOp("st.error")
           /\ Last(log) = E("st.file_uploader", "dataset"))
  /\ (pc = "end" /\ (IsLocal \/ IsYahoo) /\ Has("st.text_input", "prompt") /\ prompt = "")
       => (status = "stopped" /\ exc = "" /\ ~HasOp("st.error")
           /\ Last(log) = E("st.text_input", "prompt"))
  /\ (IsYahoo /\ pc # "yahoo_symbol" /\ stock_symbol = "")
       => (status = "stopped" /\ exc = "" /\ ~HasOp("st.error")
           /\ Last(log) = E("st.text_input", "stock_symbol"))
  /\ (IsCloud /\ pc # "cloud_inputs" /\ (bucket_name = "" \/ blob_name = ""))
       => (status = "stopped" /\ exc = "" /\ ~HasOp("st.error")
           /\ Last(log) = E("st.text_input", "blob_name"))

C3_Witness ==
  /\ IsLocal /\ dataset # None
  /\ Has("st.sidebar.radio", "llm")
  /\ prompt = "" /\ status = "stopped"
  /\ Last(log) = E("st.text_input", "prompt")

\* C4: for each of the four tasks, a run with every input supplied and no
\* error reaches Dispatch and Render, and every Dispatch is preceded by a
\* backend selection.
C4_FlowOrder ==
  /\ (status = "done" /\ (IsLocal => addon # ""))
       => (Dispatched /\ ParseCalls # <<>>)
  /\ \A i \in 1..Len(log) :
       log[i].op \in {"sdf.chat", "yahoo_df.chat"}
         => \E j \in 1..(i - 1) : log[j] = E("st.sidebar.radio", "llm")

\* C5: when write_read fails on the storage service for a non-empty bucket
\* and blob name, the failure becomes an error message, no preview is
\* shown and the run does not end with an uncaught exception.
C5_BlobFailureCaught ==
  (IsCloud /\ gcs.error # "")
    => (status # "raised" /\ HasOp("st.error") /\ ~HasOp("st.dataframe"))

\* a header line of W >= 1 non-empty names followed by rows of width W
WellFormedCsv(lines) ==
  /\ Len(lines) >= 1
  /\ Len(csv_row(lines[1])) >= 1
  /\ \A i \in 1..Len(csv_row(lines[1])) : csv_row(lines[1])[i] # <<>>
  /\ \A r \in 2..Len(lines) : Len(csv_row(lines[r])) = Len(csv_row(lines[1]))

\* C6: for every well-formed CSV blob with a header of width W >= 1 and N
\* rows of width W, write_read returns a table of exactly N rows and W
\* columns whose column names are the header fields in header order, also
\* for N = 0 and for headers that repeat a name.
C6_LoaderShape ==
  (IsCloud /\ pc = "end" /\ gcs.error = "" /\ WellFormedCsv(gcs.lines))
    => /\ status = "done"
       /\ Len(df_bq.data) = Len(gcs.lines) - 1
       /\ Len(df_bq.columns) = Len(csv_row(gcs.lines[1]))
       /\ df_bq.columns = csv_row(gcs.lines[1])

\* C7: when reading the uploaded file raises, an error message is shown and
\* the run halts there without an uncaught exception: no cost estimate, no
\* preview, no backend selection and no dispatch happen in that run.
C7_UploadFailureHalts ==
  (IsLocal /\ dataset # None /\ read_raises(dataset) /\ pc # "read")
    => /\ status = "stopped" /\ exc = ""
       /\ log = setup \o get_tasks
                  \o <<E("st.file_uploader", "dataset"),
                       E("st.error", "Error reading file")>>
       /\ ~Has("st.write", "Tokens:") /\ ~HasOp("st.dataframe")
       /\ ~Has("st.sidebar.radio", "llm") /\ ~Dispatched

C7_Witness ==
  /\ IsLocal /\ dataset # None /\ read_raises(dataset)
  /\ file_extension(dataset) = <<"c", "s", "v">>
  /\ status = "stopped" /\ Last(log) = E("st.error", "Error reading file")

\* C8: in the local-drive flow, for either backend the dispatch completes
\* and the response is rendered, and the usage record is displayed after
\* the response exactly when the backend is OpenAI; Google Gemini gives the
\* response and the generated code with no usage record and no error.
C8_UsageRecord ==
  (IsLocal /\ pc = "end" /\ prompt # "" /\ ~result.raises)
    => /\ status = "done"
       /\ HasOp("sdf.chat") /\ Len(ParseCalls) = 1
       /\ Has("st.code", "last_code_executed")
       /\ (Has("st.write", "cb") <=> llm_choice = "OpenAI")
       /\ (Has("st.write", "cb") => Last(log) = E("st.write", "cb"))

ReachedBackend == pc \in {"backend", "prompt", "chat"} \/ Has("st.sidebar.radio", "llm")

\* C10 as stated: once the descriptor question is answered, backend
\* selector, prompt input and dispatch are all reached if and only if the
\* descriptor string is non-empty (runs ended by an exception set aside).
C10_GateAsStated ==
  (pc = "end" /\ col_desc # "" /\ status # "raised")
    => ((Has("st.sidebar.radio", "llm") /\ Has("st.text_input", "prompt")
         /\ HasOp("sdf.chat")) <=> addon # "")

\* C10 amended: backend selector and prompt input are reached if and only
\* if the descriptor string is non-empty, and a dispatch happens only if it
\* is non-empty.  No always proceeds and passes the text "None" to the
\* engine as the field descriptions; Yes with a blank description never
\* reaches backend selection or dispatch, and the run ends without an
\* error and with nothing shown after the description input.
C10_DescriptorGate ==
  col_desc # "" =>
    /\ ReachedBackend <=> addon # ""
    /\ pc = "end" =>
         ((Has("st.sidebar.radio", "llm") /\ Has("st.text_input", "prompt"))
            <=> addon # "")
    /\ HasOp("sdf.chat") => addon # ""
    /\ Has("st.sidebar.radio", "llm") => field_descriptions = addon
    /\ col_desc = "No" =>
         /\ addon = "None" /\ ReachedBackend
         /\ (Has("st.sidebar.radio", "llm") => field_descriptions = "None")
    /\ (col_desc = "Yes" /\ addon = "") =>
         /\ status = "done" /\ exc = ""
         /\ ~HasOp("st.error") /\ ~Dispatched
         /\ Last(log) = E("st.text_input", "addon")

C10_Witness ==
  /\ col_desc = "Yes" /\ addon = "" /\ status = "done"
  /\ Last(log) = E("st.text_input", "addon")

====
